---------------------------- MODULE Spec2Model ----------------------------
(***************************************************************************)
(* Model of the public-key publishing service (src/src/main.rs).           *)
(*                                                                         *)
(* Text is modelled as sequences of Unicode code points, an Option<T> as   *)
(* a sequence of length 0 (None) or 1 (Some).  The pub_keys table is the   *)
(* function store from id text to [public_key, note].  handle_publish is   *)
(* split at its only suspension point, the INSERT's .await: the            *)
(* synchronous part up to it, and the part that runs the statement and     *)
(* answers.  show_record holds a single store access, so it is one step    *)
(* at the point of its query.  resp is the response produced by the last   *)
(* step (kind "none" when that step answered nobody).                      *)
(***************************************************************************)
EXTENDS Naturals, Sequences, FiniteSets, TLC

\* ------------------------------------------------------------------ bounds

\* Number of distinct UUID values Uuid::new_v4 can produce in the model.
NumUuids == 2

\* ------------------------------------------------------- program constants

MaxKeyBytes == 1000
MaxNoteBytes == 100
KeyLength == 32

\* ------------------------------------------------------------------- text

\* The function as an explicit tuple.
Tuple(f) == SubSeq(f, 1, Len(f))

Rep(c, n) == Tuple([i \in 1..n |-> c])

None == << >>
Some(x) == << x >>

\* char::is_whitespace: the Unicode White_Space property.
IsWhitespace(c) ==
    \/ c \in 9..13
    \/ c \in {32, 133, 160, 5760, 8232, 8233, 8239, 8287, 12288}
    \/ c \in 8192..8202

\* char::is_control: general category Cc.
IsControl(c) == c \in 0..31 \/ c \in 127..159

\* str::trim: leading and trailing White_Space removed.
Trim(s) ==
    LET keep == {i \in 1..Len(s) : ~IsWhitespace(s[i])}
    IN  IF keep = {} THEN << >>
        ELSE LET lo == CHOOSE i \in keep :
                           \A j \in 1..(i - 1) : IsWhitespace(s[j])
                 hi == CHOOSE i \in keep :
                           \A j \in (i + 1)..Len(s) : IsWhitespace(s[j])
             IN  SubSeq(s, lo, hi)

\* str::as_bytes().len(): the length of the UTF-8 encoding.
ByteLen(s) ==
    Len(s) + Cardinality({i \in 1..Len(s) : s[i] >= 128})
           + Cardinality({i \in 1..Len(s) : s[i] >= 2048})
           + Cardinality({i \in 1..Len(s) : s[i] >= 65536})

\* ----------------------------------------------------------------- base64

\* The value of a symbol of the standard alphabet, 64 for any other char.
B64Value(c) ==
    IF c \in 65..90 THEN c - 65
    ELSE IF c \in 97..122 THEN c - 71
    ELSE IF c \in 48..57 THEN c + 4
    ELSE IF c = 43 THEN 62
    ELSE IF c = 47 THEN 63
    ELSE 64

\* STANDARD.decode: canonical '=' padding required, trailing bits must be
\* zero.  Some(bytes) on success, None on any decode error.
Decode(s) ==
    LET n    == Len(s)
        npad == IF n >= 2 /\ s[n] = 61 /\ s[n - 1] = 61 THEN 2
                ELSE IF n >= 1 /\ s[n] = 61 THEN 1 ELSE 0
        nsym == n - npad
        val(i) == IF i <= nsym THEN B64Value(s[i]) ELSE 0
        nbytes == (n \div 4) * 3 - npad
        quad(g) == val(4 * g + 1) * 262144 + val(4 * g + 2) * 4096
                     + val(4 * g + 3) * 64 + val(4 * g + 4)
        shift(k) == IF k = 0 THEN 65536 ELSE IF k = 1 THEN 256 ELSE 1
    IN  IF n % 4 # 0 THEN None
        ELSE IF \E i \in 1..nsym : B64Value(s[i]) = 64 THEN None
        ELSE IF npad = 1 /\ B64Value(s[nsym]) % 4 # 0 THEN None
        ELSE IF npad = 2 /\ B64Value(s[nsym]) % 16 # 0 THEN None
        ELSE Some(Tuple([j \in 1..nbytes |->
                    (quad((j - 1) \div 3) \div shift((j - 1) % 3)) % 256]))

\* ------------------------------------------------------------------- uuid

\* The 32 hex digits of the u-th UUID value: version nibble 4, variant
\* nibble 8..b, the random digits a..f so that letter case shows.
Nibbles(u) ==
    Tuple([i \in 1..32 |-> IF i = 13 THEN 4
                           ELSE IF i = 17 THEN 8 + (u % 4)
                           ELSE 10 + ((u - 1) % 6)])

UuidValues == {Nibbles(u) : u \in 1..NumUuids}

LowerHex(d) == IF d < 10 THEN 48 + d ELSE 87 + d
UpperHex(d) == IF d < 10 THEN 48 + d ELSE 55 + d

\* The value of a hex digit of either case, 16 for any other char.
HexValue(c) ==
    IF c \in 48..57 THEN c - 48
    ELSE IF c \in 97..102 THEN c - 87
    ELSE IF c \in 65..70 THEN c - 55
    ELSE 16

\* Position in the 36-char hyphenated form of the i-th hex digit.
HyphenPos(i) ==
    i + (IF i > 20 THEN 4 ELSE IF i > 16 THEN 3
         ELSE IF i > 12 THEN 2 ELSE IF i > 8 THEN 1 ELSE 0)

Hyphenated(nib, upper) ==
    Tuple([p \in 1..36 |->
        IF p \in {9, 14, 19, 24} THEN 45
        ELSE LET d == nib[CHOOSE i \in 1..32 : HyphenPos(i) = p]
             IN  IF upper THEN UpperHex(d) ELSE LowerHex(d)])

\* Uuid::to_string: lowercase, hyphenated.
to_string(nib) == Hyphenated(nib, FALSE)

UpperHyphenated(nib) == Hyphenated(nib, TRUE)

Simple(nib) == Tuple([i \in 1..32 |-> LowerHex(nib[i])])

ParseSimple(s) ==
    IF Len(s) = 32 /\ \A i \in 1..32 : HexValue(s[i]) < 16
    THEN Some(Tuple([i \in 1..32 |-> HexValue(s[i])]))
    ELSE None

ParseHyphenated(s) ==
    IF /\ Len(s) = 36
       /\ \A p \in {9, 14, 19, 24} : s[p] = 45
       /\ \A i \in 1..32 : HexValue(s[HyphenPos(i)]) < 16
    THEN Some(Tuple([i \in 1..32 |-> HexValue(s[HyphenPos(i)])]))
    ELSE None

\* Uuid::parse_str: the simple, hyphenated, braced and urn:uuid: forms.
ParseStr(s) ==
    IF Len(s) = 32 THEN ParseSimple(s)
    ELSE IF Len(s) = 36 THEN ParseHyphenated(s)
    ELSE IF Len(s) = 38 /\ s[1] = 123 /\ s[38] = 125
        THEN ParseHyphenated(SubSeq(s, 2, 37))
    ELSE IF Len(s) = 45
            /\ SubSeq(s, 1, 9) = <<117, 114, 110, 58, 117, 117, 105, 100, 58>>
        THEN ParseHyphenated(SubSeq(s, 10, 45))
    ELSE None

\* ------------------------------------------------------------------- html

RECURSIVE html_escape(_)
html_escape(s) ==
    IF s = << >> THEN << >>
    ELSE (CASE Head(s) = 60 -> <<38, 108, 116, 59>>
            [] Head(s) = 62 -> <<38, 103, 116, 59>>
            [] Head(s) = 38 -> <<38, 97, 109, 112, 59>>
            [] Head(s) = 34 -> <<38, 113, 117, 111, 116, 59>>
            [] Head(s) = 39 -> <<38, 35, 51, 57, 59>>
            [] OTHER -> << Head(s) >>) \o html_escape(Tail(s))

\* ----------------------------------------------------------------- inputs

\* Base64 of 32 bytes: 43 x 'A' and '='.
KeyA == Rep(65, 43) \o <<61>>
\* Base64 of 32 other bytes: '+', 41 x '/', 'w', '='.
KeyB == <<43>> \o Rep(47, 41) \o <<119, 61>>
\* KeyB behind a space and a tab, followed by a newline.
KeyBWrapped == <<32, 9>> \o KeyB \o <<10>>
\* KeyA with a space in the middle.
KeyInnerSpace == Rep(65, 20) \o <<32>> \o Rep(65, 23) \o <<61>>
\* KeyA followed by NUL, a control character that is no whitespace.
KeyTrailingNul == KeyA \o <<0>>
KeyEmpty == << >>
KeyBlank == <<32, 10>>
\* 1001 bytes, 1000 bytes, and 501 two-byte chars (1002 bytes).
KeyLong == Rep(65, MaxKeyBytes + 1)
KeyAtLimit == Rep(65, MaxKeyBytes)
KeyLongMultibyte == Rep(233, MaxKeyBytes \div 2 + 1)
\* More than 1000 bytes and a space in the middle.
KeyLongInnerSpace == Rep(65, 500) \o <<32>> \o Rep(65, 500)
\* 44 chars ending in '!'; 42 x 'A', 'B', '=': non-zero trailing bits.
KeyBadSymbol == Rep(65, 43) \o <<33>>
KeyTrailingBits == Rep(65, 42) \o <<66, 61>>
\* Base64 of 16 bytes and of 33 bytes.
Key16 == Rep(65, 22) \o <<61, 61>>
Key33 == Rep(65, 44)

InvalidKeys ==
    { KeyInnerSpace, KeyTrailingNul, KeyEmpty, KeyBlank, KeyLong, KeyAtLimit,
      KeyLongMultibyte, KeyLongInnerSpace, KeyBadSymbol, KeyTrailingBits,
      Key16, Key33 }

\* " a<b ": trimmed to "a<b", whose '<' the page escapes.
NoteMarkup == <<32, 97, 60, 98, 32>>
NoteBlank == <<32, 9>>
\* 100 bytes behind a space and before a newline; 101 bytes; 51 two-byte
\* chars (102 bytes).
NoteAtLimit == <<32>> \o Rep(110, MaxNoteBytes) \o <<10>>
NoteLong == Rep(110, MaxNoteBytes + 1)
NoteLongMultibyte == Rep(233, MaxNoteBytes \div 2 + 1)

\* The POST /publish bodies the clients send (PublishForm).
Forms ==
    [public_key : InvalidKeys, note : {Some(NoteLong)}]
    \cup [public_key : {KeyInnerSpace, Key16}, note : {None}]
    \cup [public_key : {KeyA},
          note : {None, Some(<< >>), Some(NoteBlank), Some(NoteAtLimit),
                  Some(NoteLong), Some(NoteLongMultibyte)}]
    \cup [public_key : {KeyBWrapped}, note : {Some(NoteMarkup)}]

NoForm == [public_key |-> << >>, note |-> None]

AllIds == {to_string(v) : v \in UuidValues}

\* "not-a-uuid", and the first id with a 'g' for its first digit.
PathNotAUuid == <<110, 111, 116, 45, 97, 45, 117, 117, 105, 100>>
PathBadDigit == [to_string(Nibbles(1)) EXCEPT ![1] = 103]

\* The {id} values of the GET /k/{id} requests the clients send.
Paths ==
    AllIds \cup {UpperHyphenated(Nibbles(1)), Simple(Nibbles(1)),
                 PathNotAUuid, PathBadDigit}

\* WEBSITE_NAME unset: "jiming.cleanyong.familybankbank.com".
website_name ==
    <<106, 105, 109, 105, 110, 103, 46, 99, 108, 101, 97, 110, 121, 111, 110,
      103, 46, 102, 97, 109, 105, 108, 121, 98, 97, 110, 107, 98, 97, 110,
      107, 46, 99, 111, 109>>

\* What a store operation can meet: it runs, or the pool or the database
\* file fails it.
StoreOutcomes == {"ok", "Unavailable"}

\* ------------------------------------------------------------------ state

VARIABLES
    store,      \* pub_keys: id text -> [public_key, note]
    pending,    \* handle_publish tasks suspended at the INSERT's .await: the
                \* values bound to the statement, with the form received
                \* and whether a publish of another key has been
                \* redirected since the task began (history)
    published,  \* the redirects sent: [id, public_key, note] as the handler
                \* that sent each held them
    resp        \* the response the last step produced

vars == <<store, pending, published, resp>>

NoResponse ==
    [kind |-> "none", form |-> NoForm, path |-> << >>, id |-> << >>,
     status |-> 0, text |-> << >>, location |-> << >>, page |-> None,
     attempts |-> 0, err |-> "none", raced |-> FALSE]

\* ------------------------------------------------------------------ store

\* Mutant of Insert: the statement replaces the rows that hold the same
\* public_key (INSERT OR REPLACE over a unique key column).
Insert_ReplacingKey(rows, id, public_key, note, outcome) ==
    IF outcome # "ok" THEN [err |-> outcome, rows |-> rows]
    ELSE IF id \in DOMAIN rows THEN [err |-> "Conflict", rows |-> rows]
    ELSE LET kept == {x \in DOMAIN rows : rows[x].public_key # public_key}
         IN  [err |-> "none",
              rows |-> [x \in kept \cup {id} |->
                          IF x = id
                          THEN [public_key |-> public_key, note |-> note]
                          ELSE rows[x]]]

\* INSERT INTO pub_keys (id, public_key, note) VALUES (?, ?, ?), id being
\* the PRIMARY KEY.  One statement: it adds the whole row or nothing.
Insert(rows, id, public_key, note, outcome) ==
    IF outcome # "ok" THEN [err |-> outcome, rows |-> rows]
    ELSE IF id \in DOMAIN rows THEN [err |-> "Conflict", rows |-> rows]
    ELSE [err |-> "none",
          rows |-> [x \in DOMAIN rows \cup {id} |->
                      IF x = id THEN [public_key |-> public_key, note |-> note]
                      ELSE rows[x]]]

\* SELECT ... FROM pub_keys WHERE id = ?, fetch_optional: TEXT compares
\* byte for byte.
FetchOptional(rows, id, outcome) ==
    IF outcome # "ok" THEN [err |-> outcome, row |-> None]
    ELSE IF id \in DOMAIN rows
        THEN [err |-> "none",
              row |-> Some([id |-> id, public_key |-> rows[id].public_key,
                            note |-> rows[id].note])]
    ELSE [err |-> "none", row |-> None]

\* --------------------------------------------------------- handle_publish

\* Mutant of TrimmedKey: every whitespace character is removed, not only
\* the leading and trailing ones.
TrimmedKey_StripAll(form) ==
    SelectSeq(form.public_key, LAMBDA c : ~IsWhitespace(c))

\* let trimmed_key = form.public_key.trim().to_string();
TrimmedKey(form) == Trim(form.public_key)

\* Mutant of KeyError: any decoded length passes (Ok(_) => {}).
KeyError_AnyLength(trimmed_key) ==
    IF trimmed_key = << >> THEN "public_key must not be empty"
    ELSE IF \E i \in 1..Len(trimmed_key) :
                IsControl(trimmed_key[i]) \/ IsWhitespace(trimmed_key[i])
        THEN "public_key cannot contain whitespace or control characters"
    ELSE IF ByteLen(trimmed_key) > MaxKeyBytes
        THEN "public_key must be at most 1000 bytes"
    ELSE IF Decode(trimmed_key) = None THEN "public_key must be valid base64"
    ELSE ""

\* Mutant of KeyError: the length rule is checked before the character rule.
KeyError_LengthFirst(trimmed_key) ==
    IF trimmed_key = << >> THEN "public_key must not be empty"
    ELSE IF ByteLen(trimmed_key) > MaxKeyBytes
        THEN "public_key must be at most 1000 bytes"
    ELSE IF \E i \in 1..Len(trimmed_key) :
                IsControl(trimmed_key[i]) \/ IsWhitespace(trimmed_key[i])
        THEN "public_key cannot contain whitespace or control characters"
    ELSE LET bytes == Decode(trimmed_key)
         IN  IF bytes = None THEN "public_key must be valid base64"
             ELSE IF Len(bytes[1]) # KeyLength
                 THEN "public_key must be base64 of a 32-byte key (ED25519)"
             ELSE ""

\* The key rules in the order of the code; "" when the key passes.
KeyError(trimmed_key) ==
    IF trimmed_key = << >> THEN "public_key must not be empty"
    ELSE IF \E i \in 1..Len(trimmed_key) :
                IsControl(trimmed_key[i]) \/ IsWhitespace(trimmed_key[i])
        THEN "public_key cannot contain whitespace or control characters"
    ELSE IF ByteLen(trimmed_key) > MaxKeyBytes
        THEN "public_key must be at most 1000 bytes"
    ELSE LET bytes == Decode(trimmed_key)
         IN  IF bytes = None THEN "public_key must be valid base64"
             ELSE IF Len(bytes[1]) # KeyLength
                 THEN "public_key must be base64 of a 32-byte key (ED25519)"
             ELSE ""

\* form.note.map(|n| n.trim().to_string()).filter(|n| !n.is_empty())
NormalizedNote(form) ==
    IF form.note = None THEN None
    ELSE LET n == Trim(form.note[1])
         IN  IF n = << >> THEN None ELSE Some(n)

\* Mutant of NoteError: the note is measured in chars, not in bytes.
NoteError_Chars(note) ==
    IF note # None /\ Len(note[1]) > MaxNoteBytes
    THEN "note must be at most 100 bytes"
    ELSE ""

\* The note rule; "" when the note passes.
NoteError(note) ==
    IF note # None /\ ByteLen(note[1]) > MaxNoteBytes
    THEN "note must be at most 100 bytes"
    ELSE ""

\* handle_publish up to the INSERT: the 400 it returns, or the values it
\* binds to the statement.
PublishSync(form) ==
    LET trimmed_key == TrimmedKey(form)
        note == NormalizedNote(form)
    IN  IF KeyError(trimmed_key) # ""
        THEN [reject |-> TRUE, text |-> KeyError(trimmed_key),
              public_key |-> << >>, note |-> None]
        ELSE IF NoteError(note) # ""
        THEN [reject |-> TRUE, text |-> NoteError(note),
              public_key |-> << >>, note |-> None]
        ELSE [reject |-> FALSE, text |-> "",
              public_key |-> trimmed_key, note |-> note]

\* PublishSync tabulated over the forms sent (@@ makes the table explicit).
PublishPlan == [form \in Forms |-> PublishSync(form)] @@ << >>

\* Mutant of NewV4: the id may be one that a publish in flight holds.
NewV4_IgnoringInFlight == AllIds \ DOMAIN store

\* Uuid::new_v4().to_string(): 122 random bits, modelled as any value that
\* no row and no publish in flight holds.
NewV4 == AllIds \ (DOMAIN store \cup {p.id : p \in pending})

\* format!("database error: {e}")
ErrorBody(e) == <<"database error: ", e>>

\* Redirect::to(&format!("/k/{id}"))
RedirectTarget(id) == <<47, 107, 47>> \o id

\* POST /publish, from the form to the first .await.
HandlePublish(form) ==
    LET plan == PublishPlan[form]
    IN  IF plan.reject
        THEN /\ resp' = [NoResponse EXCEPT !.kind = "publish", !.form = form,
                                           !.status = 400,
                                           !.text = <<plan.text>>]
             /\ UNCHANGED <<store, pending, published>>
        ELSE \E id \in NewV4 :
             /\ pending' = pending \cup
                    {[id |-> id, public_key |-> plan.public_key,
                      note |-> plan.note, form |-> form, raced |-> FALSE]}
             /\ resp' = NoResponse
             /\ UNCHANGED <<store, published>>

\* POST /publish, from the INSERT to the response.
HandlePublishResume(p, outcome) ==
    LET r == Insert(store, p.id, p.public_key, p.note, outcome)
        base == [NoResponse EXCEPT !.kind = "publish", !.form = p.form,
                                   !.id = p.id, !.attempts = 1,
                                   !.err = r.err, !.raced = p.raced]
    IN  /\ store' = r.rows
        /\ IF r.err = "none"
           THEN /\ resp' = [base EXCEPT !.status = 303,
                                        !.location = RedirectTarget(p.id)]
                /\ pending' =
                       {[q EXCEPT !.raced =
                             q.raced \/ q.public_key # p.public_key] :
                        q \in pending \ {p}}
                /\ published' = published \cup
                       {[id |-> p.id, public_key |-> p.public_key,
                         note |-> p.note]}
           ELSE /\ resp' = [base EXCEPT !.status = 500,
                                        !.text = ErrorBody(r.err)]
                /\ pending' = pending \ {p}
                /\ UNCHANGED published

\* ------------------------------------------------------------ show_record

\* Mutant of validate_record_id: every id passes.
validate_record_id_Any(id) == TRUE

\* Ok(()) as TRUE, Err((400, ..)) as FALSE.
validate_record_id(id) == ParseStr(id) # None

\* Mutant of QueryId: the parsed UUID, formatted again, is bound.
QueryId_Canonical(id) == to_string(ParseStr(id)[1])

\* The value bound to the query's parameter: the path text as received.
QueryId(id) == id

\* The page's variable parts: the id, the key, the note paragraph (None for
\* the "No note provided." placeholder) and the share link's value.
build_record_page(record, full_url) ==
    [id |-> record.id,
     key |-> html_escape(record.public_key),
     note |-> IF record.note = None THEN None
              ELSE Some(html_escape(record.note[1])),
     link |-> IF full_url = None THEN None
              ELSE Some(html_escape(full_url[1]))]

\* Mutant of FullUrl: the link is built with http://.
FullUrl_Http(id) ==
    <<104, 116, 116, 112, 58, 47, 47>> \o website_name
        \o <<47, 107, 47>> \o id

\* format!("https://{}/k/{}", state.website_name, r.id)
FullUrl(id) ==
    <<104, 116, 116, 112, 115, 58, 47, 47>> \o website_name
        \o <<47, 107, 47>> \o id

\* GET /k/{id}
ShowRecord(id, outcome) ==
    LET base == [NoResponse EXCEPT !.kind = "show", !.path = id]
        r == FetchOptional(store, QueryId(id), outcome)
    IN  /\ resp' =
             IF ~validate_record_id(id)
             THEN [base EXCEPT !.status = 400,
                               !.text = <<"invalid record id (must be a UUID)">>]
             ELSE IF r.err # "none"
             THEN [base EXCEPT !.status = 500, !.attempts = 1, !.err = r.err,
                               !.text = ErrorBody(r.err)]
             ELSE IF r.row = None
             THEN [base EXCEPT !.status = 404, !.attempts = 1,
                               !.text = <<"Key not found">>]
             ELSE [base EXCEPT !.status = 200, !.attempts = 1,
                               !.page = Some(build_record_page(
                                   r.row[1], Some(FullUrl(r.row[1].id))))]
        /\ UNCHANGED <<store, pending, published>>

\* GET /
ShowForm ==
    /\ resp' = [NoResponse EXCEPT !.kind = "form", !.status = 200]
    /\ UNCHANGED <<store, pending, published>>

\* ---------------------------------------------------------- specification

Init ==
    /\ store = << >>
    /\ pending = {}
    /\ published = {}
    /\ resp = NoResponse

Next ==
    \/ ShowForm
    \/ \E form \in Forms : HandlePublish(form)
    \/ \E p \in pending, outcome \in StoreOutcomes :
           HandlePublishResume(p, outcome)
    \/ \E id \in Paths, outcome \in StoreOutcomes : ShowRecord(id, outcome)

Spec == Init /\ [][Next]_vars

\* ----------------------------------------------------------------- claims

HasWhitespaceOrControl(s) ==
    \E i \in 1..Len(s) : IsWhitespace(s[i]) \/ IsControl(s[i])

\* The text decodes as Base64 to exactly 32 bytes.
DecodesToKey(s) ==
    LET bytes == Decode(s) IN bytes # None /\ Len(bytes[1]) = KeyLength

\* What the rules of the specification say of a form: the key as sent and
\* once trimmed, each key rule on the trimmed key, the note rule on the
\* trimmed note, and the note the row is to hold (absent when the note is
\* missing, empty or all whitespace, the trimmed note otherwise).
Rules(form) ==
    LET k == Trim(form.public_key)
        n == IF form.note = None THEN << >> ELSE Trim(form.note[1])
        bad == HasWhitespaceOrControl(k)
        long == ByteLen(k) > MaxKeyBytes
        decoded == Decode(k)
    IN  [sentWithBadChar |-> HasWhitespaceOrControl(form.public_key),
         key |-> k,
         empty |-> k = << >>,
         badChar |-> bad,
         tooLong |-> long,
         notBase64 |-> decoded = None,
         wrongLength |-> decoded # None /\ Len(decoded[1]) # KeyLength,
         noteTooLong |-> ByteLen(n) > MaxNoteBytes,
         note |-> IF n = << >> THEN None ELSE Some(n)]

\* Rules tabulated over the forms sent (@@ makes the table explicit).
RulesOf == [form \in Forms |-> Rules(form)] @@ << >>

\* The key of the form passes every key rule once trimmed.
KeyAccepted(form) ==
    LET f == RulesOf[form]
    IN  ~f.empty /\ ~f.badChar /\ ~f.tooLong /\ ~f.notBase64 /\ ~f.wrongLength

NoteTooLong(form) == RulesOf[form].noteTooLong

ExpectedNote(form) == RulesOf[form].note

IsPublish(r) == r.kind = "publish"
IsShow(r) == r.kind = "show"

\* C1 as stated: every POST /publish whose submitted key contains a
\* whitespace or control character is answered 400 and leaves the store as
\* it was.  (Refuted: leading and trailing whitespace is trimmed first.)
C1_AnyWhitespaceRejected ==
    [][ (IsPublish(resp') /\ RulesOf[resp'.form].sentWithBadChar)
            => (resp'.status = 400 /\ store' = store) ]_vars

\* C1 amended: every POST /publish whose key, once its leading and trailing
\* whitespace is trimmed, is empty or still contains a whitespace or control
\* character is answered 400 and leaves the store as it was.
C1_TrimmedKeyRejected ==
    [][ ( /\ IsPublish(resp')
          /\ RulesOf[resp'.form].sentWithBadChar
          /\ RulesOf[resp'.form].empty \/ RulesOf[resp'.form].badChar )
            => (resp'.status = 400 /\ resp'.attempts = 0 /\ store' = store)
      ]_vars

\* A key with an inner space or a trailing NUL was refused while the store
\* holds a row.
C1_Witness ==
    /\ IsPublish(resp)
    /\ ~RulesOf[resp.form].empty
    /\ RulesOf[resp.form].badChar
    /\ resp.status = 400
    /\ DOMAIN store # {}

\* C2: every row of pub_keys holds a public_key that is non-empty, free of
\* whitespace and control characters, at most 1000 bytes long and Base64 of
\* exactly 32 bytes, and a note that is absent or a non-empty trimmed text
\* of at most 100 bytes.
C2_RowsWellFormed ==
    \A id \in DOMAIN store :
        LET k == store[id].public_key
            n == store[id].note
        IN  /\ k # << >>
            /\ ~HasWhitespaceOrControl(k)
            /\ ByteLen(k) <= MaxKeyBytes
            /\ DecodesToKey(k)
            /\ \/ n = None
               \/ /\ Len(n) = 1
                  /\ n[1] # << >>
                  /\ Trim(n[1]) = n[1]
                  /\ ByteLen(n[1]) <= MaxNoteBytes

\* Two rows, one with a note and one without.
C2_Witness ==
    /\ \E id \in DOMAIN store : store[id].note = None
    /\ \E id \in DOMAIN store : store[id].note # None

\* The record page of a published record: the key as it is, the note
\* HTML-escaped or the placeholder, and the link with the configured host.
ExpectedPage(r) ==
    [id |-> r.id,
     key |-> r.public_key,
     note |-> IF r.note = None THEN None ELSE Some(html_escape(r.note[1])),
     link |-> Some(<<104, 116, 116, 112, 115, 58, 47, 47>> \o website_name
                     \o <<47, 107, 47>> \o r.id)]

\* C3: a publish of a valid key K with note N is answered by a redirect to
\* /k/{id}, id being a generated id that names this record alone, and a GET
\* /k/{id} made once that redirect is sent, whose query the store answers,
\* returns 200 with the page of K as submitted (trimmed), the trimmed N
\* (HTML-escaped) or the placeholder, and the link https://{host}/k/{id}.
C3_RoundTrip ==
    /\ (IsPublish(resp) /\ resp.status = 303) =>
          /\ resp.location = <<47, 107, 47>> \o resp.id
          /\ resp.id \in AllIds
          /\ {r \in published : r.id = resp.id} =
                {[id |-> resp.id, public_key |-> RulesOf[resp.form].key,
                  note |-> ExpectedNote(resp.form)]}
    /\ \A r \in published :
          (IsShow(resp) /\ resp.path = r.id /\ resp.err = "none") =>
              /\ resp.status = 200
              /\ resp.page = Some(ExpectedPage(r))

\* A published record with a note has been fetched.
C3_Witness ==
    /\ IsShow(resp)
    /\ resp.status = 200
    /\ \E r \in published : r.id = resp.path /\ r.note # None

\* C4: publishes in flight together hold distinct ids that no row has; each
\* whose INSERT the store runs is redirected; the store holds exactly the
\* records of the redirects sent, each whole; and each is fetched by its id
\* with its own key and note.
C4_ConcurrentPublish ==
    /\ \A p \in pending : p.id \notin DOMAIN store
    /\ \A p, q \in pending : p # q => p.id # q.id
    /\ (IsPublish(resp) /\ resp.attempts = 1 /\ resp.err # "Unavailable")
          => resp.status = 303
    /\ DOMAIN store = {r.id : r \in published}
    /\ Cardinality(published) = Cardinality(DOMAIN store)
    /\ \A r \in published :
          /\ store[r.id] = [public_key |-> r.public_key, note |-> r.note]
          /\ (IsShow(resp) /\ resp.path = r.id /\ resp.status = 200) =>
                /\ resp.page[1].id = r.id
                /\ resp.page[1].key = r.public_key
                /\ (r.note = None <=> resp.page[1].note = None)

\* A publish was redirected after a publish of another key, begun or ended
\* while it was in flight, had been redirected: both rows are there.
C4_Witness ==
    /\ IsPublish(resp)
    /\ resp.status = 303
    /\ resp.raced
    /\ \E a, b \in DOMAIN store :
          a # b /\ store[a].public_key # store[b].public_key

\* C5: a row, once there, stays and keeps its public_key and note; the
\* store changes only in a step that sends a publish's redirect, by the one
\* row of that id, so that GET /, GET /k/{id} and a POST /publish answered
\* 400 or 500 leave it as it was; two GETs of one id in a row that both
\* find the record return the same page.
C5_AppendOnly ==
    [][ /\ \A id \in DOMAIN store :
              id \in DOMAIN store' /\ store'[id] = store[id]
        /\ store' # store =>
              /\ IsPublish(resp') /\ resp'.status = 303
              /\ DOMAIN store' = DOMAIN store \cup {resp'.id}
        /\ (resp'.kind \in {"form", "show"} \/ resp'.status \in {400, 500})
              => store' = store
        /\ ( /\ IsShow(resp) /\ IsShow(resp')
             /\ resp.path = resp'.path
             /\ resp.status = 200 /\ resp'.status = 200 )
              => resp'.page = resp.page ]_vars

\* A publish failed with 500 while the store holds a row.
C5_Witness ==
    /\ IsPublish(resp)
    /\ resp.status = 500
    /\ DOMAIN store # {}

\* C6: GET /k/{id} answers 400, without querying the store, exactly when id
\* does not parse as a UUID; 404 "Key not found" when it parses and no row
\* has that id; 200 with the page when a row has it; 500 exactly when the
\* query fails.
C6_ShowRecordStatus ==
    IsShow(resp) =>
        /\ ParseStr(resp.path) = None <=> resp.status = 400
        /\ resp.status = 400 => resp.attempts = 0 /\ resp.err = "none"
        /\ resp.status = 500 <=> resp.err # "none"
        /\ (ParseStr(resp.path) # None /\ resp.err = "none") =>
              /\ resp.attempts = 1
              /\ IF resp.path \in DOMAIN store
                 THEN resp.status = 200 /\ resp.page # None
                 ELSE /\ resp.status = 404
                      /\ resp.text = <<"Key not found">>
                      /\ resp.page = None

\* A well-formed id that no row has was answered 404 while the store holds
\* another row.
C6_Witness ==
    /\ IsShow(resp)
    /\ resp.status = 404
    /\ resp.path \in AllIds
    /\ DOMAIN store # {}

\* C7 as stated: a store failure is answered 500 with a generic message that
\* holds no detail of the store error, after exactly one attempt.
C7_GenericMessageOnly ==
    resp.status = 500 =>
        /\ resp.attempts = 1
        /\ \A i \in DOMAIN resp.text : resp.text[i] # resp.err

\* C8: POST /publish reports the first failing rule in the order Empty,
\* InvalidChars, TooLong, NotBase64, WrongKeyLength, note TooLong, with 400,
\* and attempts no insert: the step neither runs a statement nor leaves one
\* to be run.
C8_FirstFailingRule ==
    [][ IsPublish(resp') =>
        LET f == RulesOf[resp'.form]
            says(msg) == /\ resp'.status = 400
                         /\ resp'.text = <<msg>>
                         /\ resp'.attempts = 0
                         /\ UNCHANGED <<store, pending, published>>
        IN  /\ f.empty => says("public_key must not be empty")
            /\ (~f.empty /\ f.badChar) =>
                  says("public_key cannot contain whitespace or control characters")
            /\ (~f.empty /\ ~f.badChar /\ f.tooLong) =>
                  says("public_key must be at most 1000 bytes")
            /\ (~f.empty /\ ~f.badChar /\ ~f.tooLong /\ f.notBase64) =>
                  says("public_key must be valid base64")
            /\ ( /\ ~f.empty /\ ~f.badChar /\ ~f.tooLong
                 /\ ~f.notBase64 /\ f.wrongLength ) =>
                  says("public_key must be base64 of a 32-byte key (ED25519)")
            /\ (KeyAccepted(resp'.form) /\ NoteTooLong(resp'.form)) =>
                  says("note must be at most 100 bytes")
            /\ resp'.status = 400 =>
                  ~KeyAccepted(resp'.form) \/ NoteTooLong(resp'.form)
      ]_vars

\* A key that is too long, holds a space and is no Base64, sent with a note
\* that is too long, was answered.
C8_Witness ==
    /\ IsPublish(resp)
    /\ resp.status = 400
    /\ RulesOf[resp.form].badChar
    /\ ByteLen(RulesOf[resp.form].key) > MaxKeyBytes
    /\ NoteTooLong(resp.form)

\* C9: for a POST /publish whose key is valid: a note of more than 100
\* bytes once trimmed is answered 400 and no row is created; otherwise,
\* when the store runs the INSERT, one row is created, with the note absent
\* if it was missing, empty or all whitespace, and the trimmed note if not.
C9_NoteRule ==
    [][ (IsPublish(resp') /\ KeyAccepted(resp'.form)) =>
           IF NoteTooLong(resp'.form)
           THEN resp'.status = 400 /\ resp'.attempts = 0 /\ store' = store
           ELSE resp'.err = "none" =>
                  /\ resp'.status = 303
                  /\ resp'.id \notin DOMAIN store
                  /\ DOMAIN store' = DOMAIN store \cup {resp'.id}
                  /\ store'[resp'.id].note = ExpectedNote(resp'.form)
      ]_vars

\* A note of 100 bytes between whitespace was stored trimmed.
C9_Witness ==
    /\ IsPublish(resp)
    /\ resp.status = 303
    /\ resp.form.note = Some(NoteAtLimit)
    /\ store[resp.id].note = Some(Rep(110, MaxNoteBytes))

\* C10: GET /k/{x} returns the record only when x is, char for char, the id
\* text of a row; an x that parses as the UUID of a row but is spelled
\* otherwise is answered 404.
C10_LookupByRawText ==
    IsShow(resp) =>
        /\ resp.status = 200 =>
              resp.path \in DOMAIN store /\ resp.page[1].id = resp.path
        /\ ( /\ resp.err = "none"
             /\ resp.path \notin DOMAIN store
             /\ \E id \in DOMAIN store : ParseStr(id) = ParseStr(resp.path) )
              => resp.status = 404

\* The uppercase or the unhyphenated spelling of a stored id was answered
\* 404.
C10_Witness ==
    /\ IsShow(resp)
    /\ resp.status = 404
    /\ \E id \in DOMAIN store : ParseStr(id) = ParseStr(resp.path)

=============================================================================
